---- MODULE Spec2Model ----
(***************************************************************************)
(* pngme: chunk types (chunk_type.rs), chunks (chunk.rs) and the commands  *)
(* that edit a PNG file (commands.rs).                                     *)
(*                                                                         *)
(* Bytes are naturals 0..255; a u32 is the pair of its 16-bit halves.  A   *)
(* Rust String is the sequence of its chars (code points), str_as_bytes    *)
(* its UTF-8 encoding.  A Result is a record [tag, val] with tag "Ok" or   *)
(* "Err"; a panic (unwrap on Err, index out of bounds, arithmetic          *)
(* overflow) is the outcome with tag "Panic".                              *)
(***************************************************************************)
EXTENDS Integers, Sequences, FiniteSets, TLC

VARIABLES str, tres, chunk, bytes, origin, dec, text, disk, png, last, out

vars == <<str, tres, chunk, bytes, origin, dec, text, disk, png, last, out>>

(***************************************************************************)
(* Bounds of the model.                                                    *)
(***************************************************************************)
MaxStrLen == 5
MaxDataLen == 2
MaxRawLen == 9
MaxChunks == 3

None == [tag |-> "None", val |-> "none"]
Ok(v) == [tag |-> "Ok", val |-> v]
Err(e) == [tag |-> "Err", val |-> e]
Panic(e) == [tag |-> "Panic", val |-> e]

(***************************************************************************)
(* Integer helpers: u8 / u32 bit operations and byte order.                *)
(***************************************************************************)
\* A u32 is the record of its two 16-bit halves (the checker's integers are
\* 32-bit signed): value = hi * 65536 + lo.
u32(hi, lo) == [hi |-> hi, lo |-> lo]

\* `n as u32` for a natural n
as_u32(n) == u32((n \div 65536) % 65536, n % 65536)

RECURSIVE BitAnd(_, _)
BitAnd(a, b) ==
    IF a = 0 \/ b = 0 THEN 0
    ELSE (IF a % 2 = 1 /\ b % 2 = 1 THEN 1 ELSE 0) + 2 * BitAnd(a \div 2, b \div 2)

RECURSIVE BitXor(_, _)
BitXor(a, b) ==
    IF a = 0 THEN b
    ELSE IF b = 0 THEN a
    ELSE (((a % 2) + (b % 2)) % 2) + 2 * BitXor(a \div 2, b \div 2)

Xor32(a, b) == u32(BitXor(a.hi, b.hi), BitXor(a.lo, b.lo))

\* a >> n for n in 1..15
Shr32(a, n) == u32(a.hi \div (2 ^ n), (a.lo \div (2 ^ n)) + (a.hi % (2 ^ n)) * (2 ^ (16 - n)))

Shl(n) == 2 ^ n

to_be_bytes(n) == << n.hi \div 256, n.hi % 256, n.lo \div 256, n.lo % 256 >>

from_be_bytes(b) == u32(b[1] * 256 + b[2], b[3] * 256 + b[4])

(***************************************************************************)
(* CRC-32/ISO-HDLC (crc crate, CRC_32_ISO_HDLC): reflected polynomial      *)
(* 0xEDB88320, initial value and final xor 0xFFFFFFFF.                     *)
(***************************************************************************)
CrcPoly == u32(60856, 33568)

CrcOnes == u32(65535, 65535)

CrcShift(c) == IF c.lo % 2 = 1 THEN Xor32(Shr32(c, 1), CrcPoly) ELSE Shr32(c, 1)

CrcTable ==
    [i \in 0..255 |->
        CrcShift(CrcShift(CrcShift(CrcShift(
        CrcShift(CrcShift(CrcShift(CrcShift(u32(0, i)))))))))]

RECURSIVE CrcUpdate(_, _)
CrcUpdate(crc, bs) ==
    IF bs = <<>> THEN crc
    ELSE CrcUpdate(Xor32(CrcTable[BitXor(crc.lo % 256, Head(bs))], Shr32(crc, 8)),
                   Tail(bs))

checksum(bs) == Xor32(CrcUpdate(CrcOnes, bs), CrcOnes)

(***************************************************************************)
(* Strings.                                                                *)
(***************************************************************************)
\* str::as_bytes / String::into_bytes: the UTF-8 encoding of the chars.
RECURSIVE str_as_bytes(_)
str_as_bytes(s) ==
    IF s = <<>> THEN <<>>
    ELSE LET c == Head(s)
         IN (IF c < 128 THEN <<c>>
             ELSE <<192 + (c \div 64), 128 + (c % 64)>>) \o str_as_bytes(Tail(s))

\* char::from(u8): the char whose code point is the byte.
char_from(b) == b

\* String::from_utf8: is the byte sequence well-formed UTF-8?
Cont(b) == 128 <= b /\ b <= 191

RECURSIVE utf8_valid(_)
utf8_valid(bs) ==
    IF bs = <<>> THEN TRUE
    ELSE LET b == bs[1]
             n == Len(bs)
         IN IF b < 128 THEN utf8_valid(Tail(bs))
            ELSE IF 194 <= b /\ b <= 223
                 THEN n >= 2 /\ Cont(bs[2]) /\ utf8_valid(SubSeq(bs, 3, n))
            ELSE IF 224 <= b /\ b <= 239
                 THEN /\ n >= 3
                      /\ Cont(bs[2])
                      /\ (b = 224 => bs[2] >= 160)
                      /\ (b = 237 => bs[2] <= 159)
                      /\ Cont(bs[3])
                      /\ utf8_valid(SubSeq(bs, 4, n))
            ELSE IF 240 <= b /\ b <= 244
                 THEN /\ n >= 4
                      /\ Cont(bs[2])
                      /\ (b = 240 => bs[2] >= 144)
                      /\ (b = 244 => bs[2] <= 143)
                      /\ Cont(bs[3])
                      /\ Cont(bs[4])
                      /\ utf8_valid(SubSeq(bs, 5, n))
            ELSE FALSE

\* The chars of a well-formed UTF-8 byte sequence (1- and 2-byte forms).
RECURSIVE utf8_chars(_)
utf8_chars(bs) ==
    IF bs = <<>> THEN <<>>
    ELSE IF bs[1] < 128 THEN <<bs[1]>> \o utf8_chars(Tail(bs))
    ELSE <<(bs[1] - 192) * 64 + (bs[2] - 128)>> \o utf8_chars(SubSeq(bs, 3, Len(bs)))

(***************************************************************************)
(* chunk_type.rs                                                           *)
(***************************************************************************)
ChunkType(code) == [code |-> code]

ChunkType_bytes(t) == t.code

is_valid_byte(byte) == (65 <= byte /\ byte < 90) \/ (97 <= byte /\ byte < 122)

is_valid(t) == BitAnd(t.code[3], Shl(5)) = 0

\* is_critical testing bit 4, the bit its println shows
is_critical_Bit4(t) == BitAnd(t.code[1], Shl(4)) = 0

is_critical(t) == BitAnd(t.code[1], Shl(5)) = 0

is_public(t) == BitAnd(t.code[2], Shl(5)) = 0

is_reserved_bit_valid(t) == BitAnd(t.code[3], Shl(5)) = 0

is_safe_to_copy(t) == BitAnd(t.code[4], Shl(5)) # 0

\* The loop of from_str: i is the (1-based) position of the next byte.
RECURSIVE from_str_loop(_, _, _)
from_str_loop(bs, i, code) ==
    IF i > Len(bs) THEN Ok(ChunkType(code))
    ELSE IF ~is_valid_byte(bs[i]) THEN Err("Invalid byte in chunk type string")
    ELSE IF i > 4 THEN Panic("index out of bounds")
    ELSE from_str_loop(bs, i + 1, [code EXCEPT ![i] = bs[i]])

from_str(s) == from_str_loop(str_as_bytes(s), 1, <<0, 0, 0, 0>>)

ChunkType_try_from(value) ==
    IF is_valid(ChunkType(value)) THEN Ok(ChunkType(value))
    ELSE Err("Bad data type!")

to_string(t) == [i \in 1..4 |-> char_from(t.code[i])]

(***************************************************************************)
(* Inputs.                                                                 *)
(***************************************************************************)
RECURSIVE SeqsOfLen(_, _)
SeqsOfLen(S, n) ==
    IF n = 0 THEN {<<>>}
    ELSE {Append(q, x) : q \in SeqsOfLen(S, n - 1), x \in S}

SeqsUpTo(S, n) == UNION {SeqsOfLen(S, k) : k \in 0..n}

\* '1', 'A', 'Z', 'a', 'z', and e-acute (not ASCII)
TextChars == {49, 65, 90, 97, 122, 233}
TypeStrings == SeqsUpTo(TextChars, MaxStrLen)

RawTypeBytes == {0, 65, 97, 255}
RawTypes == SeqsOfLen(RawTypeBytes, 4)

(***************************************************************************)
(* chunk.rs                                                                *)
(***************************************************************************)
Chunk(len, chunktype, data, crc) ==
    [len |-> len, chunktype |-> chunktype, data |-> data, crc |-> crc]

\* Chunk::new with the crc of the data alone
Chunk_new_DataCrc(chunktype, data) ==
    Chunk(as_u32(Len(data)), chunktype, data, checksum(data))

Chunk_new(chunktype, data) ==
    Chunk(as_u32(Len(data)), chunktype, data,
          checksum(ChunkType_bytes(chunktype) \o data))

length(c) == c.len

chunk_type(c) == c.chunktype

data(c) == c.data

crc(c) == c.crc

\* String::from_utf8(..).unwrap() wrapped in Ok: there is no Err outcome.
data_as_string(c) ==
    IF utf8_valid(c.data) THEN Ok(utf8_chars(c.data))
    ELSE Panic("unwrap on FromUtf8Error")

as_bytes(c) ==
    to_be_bytes(c.len) \o ChunkType_bytes(c.chunktype) \o c.data \o to_be_bytes(c.crc)

\* the declared length kept as it is
RecoveredLen_Declared(declared, actual) == declared

\* lines 116-123: a declared length that differs from the payload's is replaced
RecoveredLen(declared, actual) == IF declared # actual THEN actual ELSE declared

\* the stored crc accepted without comparison
CrcVerdict_Unchecked(c, true_crc) == Ok(c)

\* lines 125-134: the stored crc against the crc of type and data
CrcVerdict(c, true_crc) ==
    IF c.crc # true_crc THEN Err("Bad CRC") ELSE Ok(c)

\* bytes[0..4] and bytes[4]..bytes[7] panic on a short slice; with fewer than
\* 4 bytes after the type, data.len() - 4 overflows (debug build) or the
\* slice start is out of range (release build): a panic in both.
Chunk_try_from(bs) ==
    IF Len(bs) < 4 THEN Panic("range end index 4 out of range for slice")
    ELSE IF Len(bs) < 8 THEN Panic("index out of bounds")
    ELSE LET t == ChunkType_try_from(SubSeq(bs, 5, 8))
         IN IF t.tag = "Err" THEN t
            ELSE LET rest == SubSeq(bs, 9, Len(bs))
                 IN IF Len(rest) < 4 THEN Panic("attempt to subtract with overflow")
                    ELSE LET stored == SubSeq(rest, Len(rest) - 3, Len(rest))
                             payload == SubSeq(rest, 1, Len(rest) - 4)
                             len == RecoveredLen(from_be_bytes(SubSeq(bs, 1, 4)),
                                                 as_u32(Len(payload)))
                             true_crc == checksum(ChunkType_bytes(t.val) \o payload)
                         IN CrcVerdict(Chunk(len, t.val, payload, from_be_bytes(stored)),
                                       true_crc)

(***************************************************************************)
(* png.rs (the container): signature, ordered chunks.                      *)
(***************************************************************************)
STANDARD_HEADER == <<137, 80, 78, 71, 13, 10, 26, 10>>

Png(chunks) == [chunks |-> chunks]

chunks(p) == p.chunks

RECURSIVE Png_parse_chunks(_, _)
Png_parse_chunks(bs, acc) ==
    IF bs = <<>> THEN Ok(Png(acc))
    ELSE IF Len(bs) < 12 THEN Err("Truncated chunk")
    ELSE LET declared == from_be_bytes(SubSeq(bs, 1, 4))
         IN IF declared.hi > 0 \/ declared.lo + 12 > Len(bs) THEN Err("Truncated chunk")
            ELSE LET c == Chunk_try_from(SubSeq(bs, 1, declared.lo + 12))
                 IN IF c.tag # "Ok" THEN c
                    ELSE Png_parse_chunks(SubSeq(bs, declared.lo + 13, Len(bs)),
                                          Append(acc, c.val))

Png_try_from(bs) ==
    IF Len(bs) < 8 \/ SubSeq(bs, 1, 8) # STANDARD_HEADER THEN Err("Bad signature")
    ELSE Png_parse_chunks(SubSeq(bs, 9, Len(bs)), <<>>)

\* one file, whose content is `disk`
Png_from_file(content) == Png_try_from(content)

RECURSIVE ConcatChunks(_)
ConcatChunks(cs) ==
    IF cs = <<>> THEN <<>> ELSE as_bytes(Head(cs)) \o ConcatChunks(Tail(cs))

Png_as_bytes(p) == STANDARD_HEADER \o ConcatChunks(p.chunks)

append_chunk(p, c) == Png(Append(p.chunks, c))

\* position of the first chunk whose type renders as the text, 0 when none does
FirstMatch(p, chunk_type_str) ==
    LET hits == {i \in 1..Len(p.chunks) : to_string(p.chunks[i].chunktype) = chunk_type_str}
    IN IF hits = {} THEN 0 ELSE CHOOSE i \in hits : \A j \in hits : i <= j

chunk_by_type(p, chunk_type_str) ==
    LET i == FirstMatch(p, chunk_type_str)
    IN IF i = 0 THEN Err("Chunk not found") ELSE Ok(p.chunks[i])

\* the removed chunk, and the container that is left
remove_first_chunk(p, chunk_type_str) ==
    LET i == FirstMatch(p, chunk_type_str)
    IN IF i = 0 THEN [tag |-> "Err", val |-> "Chunk not found", left |-> p]
       ELSE [tag |-> "Ok", val |-> p.chunks[i],
             left |-> Png(SubSeq(p.chunks, 1, i - 1)
                          \o SubSeq(p.chunks, i + 1, Len(p.chunks)))]

(***************************************************************************)
(* Inputs of the chunk operations and of the commands.                     *)
(***************************************************************************)
\* "RuSt", "Rust", "ruST", "RUSt"
ChunkTypeStrings == {<<82, 117, 83, 116>>, <<82, 117, 115, 116>>,
                     <<114, 117, 83, 84>>, <<82, 85, 83, 116>>}

\* RuSt, Rust and four NUL bytes as raw bytes
ChunkRawTypes == {<<82, 117, 83, 116>>, <<82, 117, 115, 116>>, <<0, 0, 0, 0>>}

\* 'A', and the two bytes of e-acute in UTF-8
DataBytes == {65, 195, 169}
Payloads == SeqsUpTo(DataBytes, MaxDataLen)

\* declared lengths written over the length field
LengthFields == {u32(0, 0), u32(0, 1), u32(0, 7), u32(65535, 65535)}

\* buffers that are not encodings: NUL and 't' bytes
RawBuffers == SeqsUpTo({0, 116}, MaxRawLen)

\* "RuSt", "Rust", "IEND"
CommandTypes == {<<82, 117, 83, 116>>, <<82, 117, 115, 116>>, <<73, 69, 78, 68>>}

\* "", "A"
Messages == {<<>>, <<65>>}

NoOrigin == [kind |-> "none", idx |-> 0, bit |-> 0]

NoCommand == [cmd |-> "none", chunk_type |-> <<>>, message |-> <<>>]

\* the file before any command: the signature and no chunk yet
InitialFile == Png_as_bytes(Png(<<>>))

(***************************************************************************)
(* State after construction: nothing computed yet.                         *)
(***************************************************************************)
Init ==
    /\ str = <<>>
    /\ tres = None
    /\ chunk = None
    /\ bytes = None
    /\ origin = NoOrigin
    /\ dec = None
    /\ text = None
    /\ disk = InitialFile
    /\ png = None
    /\ last = NoCommand
    /\ out = None

(***************************************************************************)
(* Chunk type operations.  A value is constructed once.                    *)
(***************************************************************************)
\* from_str on one of the strings of S
FromStr(S) ==
    /\ tres.tag = "None"
    /\ bytes.tag = "None"
    /\ \E s \in S : str' = s /\ tres' = from_str(s)
    /\ origin' = [kind |-> "from_str", idx |-> 0, bit |-> 0]
    /\ UNCHANGED <<chunk, bytes, dec, text, disk, png, last, out>>

\* ChunkType::try_from on one of the byte arrays of S
TypeTryFrom(S) ==
    /\ tres.tag = "None"
    /\ bytes.tag = "None"
    /\ str' = <<>>
    /\ \E value \in S : tres' = ChunkType_try_from(value)
    /\ origin' = [kind |-> "try_from", idx |-> 0, bit |-> 0]
    /\ UNCHANGED <<chunk, bytes, dec, text, disk, png, last, out>>

\* every value goes out of scope
Drop ==
    /\ tres.tag # "None" \/ bytes.tag # "None"
    /\ str' = <<>>
    /\ tres' = None
    /\ chunk' = None
    /\ bytes' = None
    /\ origin' = NoOrigin
    /\ dec' = None
    /\ text' = None
    /\ UNCHANGED <<disk, png, last, out>>

(***************************************************************************)
(* Chunk operations.                                                       *)
(***************************************************************************)
New ==
    /\ tres.tag = "Ok"
    /\ chunk.tag = "None"
    /\ \E payload \in Payloads : chunk' = Ok(Chunk_new(tres.val, payload))
    /\ UNCHANGED <<str, tres, bytes, origin, dec, text, disk, png, last, out>>

AsBytes ==
    /\ chunk.tag = "Ok"
    /\ bytes.tag = "None"
    /\ bytes' = Ok(as_bytes(chunk.val))
    /\ origin' = [kind |-> "as_bytes", idx |-> 0, bit |-> 0]
    /\ UNCHANGED <<str, tres, chunk, dec, text, disk, png, last, out>>

\* bit `bit` (0..7) of the byte at position idx (1-based) of the buffer
FlipBitAt(bs, idx, bit) ==
    [bs EXCEPT ![idx] = IF (bs[idx] \div Shl(bit)) % 2 = 1
                        THEN bs[idx] - Shl(bit) ELSE bs[idx] + Shl(bit)]

\* one bit of the type or of the data of an encoding is flipped
FlipBit ==
    /\ origin.kind = "as_bytes"
    /\ dec.tag = "None"
    /\ \E idx \in 5..(Len(bytes.val) - 4), bit \in 0..7 :
          /\ bytes' = Ok(FlipBitAt(bytes.val, idx, bit))
          /\ origin' = [kind |-> "flip", idx |-> idx, bit |-> bit]
    /\ UNCHANGED <<str, tres, chunk, dec, text, disk, png, last, out>>

\* the length field of an encoding is overwritten
SetLength ==
    /\ origin.kind = "as_bytes"
    /\ dec.tag = "None"
    /\ \E n \in LengthFields :
          bytes' = Ok(to_be_bytes(n) \o SubSeq(bytes.val, 5, Len(bytes.val)))
    /\ origin' = [kind |-> "length", idx |-> 0, bit |-> 0]
    /\ UNCHANGED <<str, tres, chunk, dec, text, disk, png, last, out>>

\* a buffer that nothing encoded
RawBytes ==
    /\ tres.tag = "None"
    /\ bytes.tag = "None"
    /\ \E bs \in RawBuffers : bytes' = Ok(bs)
    /\ origin' = [kind |-> "raw", idx |-> 0, bit |-> 0]
    /\ UNCHANGED <<str, tres, chunk, dec, text, disk, png, last, out>>

TryFrom ==
    /\ bytes.tag = "Ok"
    /\ dec.tag = "None"
    /\ dec' = Chunk_try_from(bytes.val)
    /\ UNCHANGED <<str, tres, chunk, bytes, origin, text, disk, png, last, out>>

\* data_as_string of the decoded chunk when there is one, else of the new one
Subject == IF dec.tag = "Ok" THEN dec.val ELSE chunk.val

DataAsString ==
    /\ chunk.tag = "Ok" \/ dec.tag = "Ok"
    /\ text.tag = "None"
    /\ text' = data_as_string(Subject)
    /\ UNCHANGED <<str, tres, chunk, bytes, origin, dec, disk, png, last, out>>

(***************************************************************************)
(* commands.rs                                                             *)
(***************************************************************************)
Command(cmd, chunk_type_str, message) ==
    [cmd |-> cmd, chunk_type |-> chunk_type_str, message |-> message]

\* the files stay small: encode is not run on a file of MaxChunks chunks
Room == LET f == Png_from_file(disk)
        IN f.tag = "Ok" => Len(f.val.chunks) < MaxChunks

encode(chunk_type_str, message) ==
    /\ Room
    /\ last' = Command("encode", chunk_type_str, message)
    /\ LET f == Png_from_file(disk)
           t == from_str(chunk_type_str)
       IN IF f.tag # "Ok"
          THEN out' = Err("Error") /\ png' = None /\ disk' = disk
          ELSE IF t.tag # "Ok"
          THEN out' = Panic("unwrap") /\ png' = Ok(f.val) /\ disk' = disk
          ELSE LET g == append_chunk(f.val, Chunk_new(t.val, str_as_bytes(message)))
               IN out' = Ok("written") /\ png' = Ok(g) /\ disk' = Png_as_bytes(g)
    /\ UNCHANGED <<str, tres, chunk, bytes, origin, dec, text>>

remove(chunk_type_str) ==
    /\ last' = Command("remove", chunk_type_str, <<>>)
    /\ LET f == Png_from_file(disk)
       IN IF f.tag # "Ok"
          THEN out' = Err("Error") /\ png' = None
          ELSE LET r == remove_first_chunk(f.val, chunk_type_str)
               IN IF r.tag # "Ok"
                  THEN out' = Panic("unwrap") /\ png' = Ok(f.val)
                  ELSE /\ png' = Ok(r.left)
                       /\ out' = IF data_as_string(r.val).tag = "Panic"
                                 THEN Panic("unwrap") ELSE Ok("removed")
    /\ UNCHANGED <<str, tres, chunk, bytes, origin, dec, text, disk>>

decode(chunk_type_str) ==
    /\ last' = Command("decode", chunk_type_str, <<>>)
    /\ LET f == Png_from_file(disk)
       IN IF f.tag # "Ok"
          THEN out' = Err("Error") /\ png' = None
          ELSE LET c == chunk_by_type(f.val, chunk_type_str)
               IN /\ png' = Ok(f.val)
                  /\ out' = IF c.tag # "Ok" THEN Panic("unwrap")
                            ELSE IF data_as_string(c.val).tag = "Panic"
                            THEN Panic("unwrap") ELSE Ok("decoded")
    /\ UNCHANGED <<str, tres, chunk, bytes, origin, dec, text, disk>>

print ==
    /\ last' = Command("print", <<>>, <<>>)
    /\ LET f == Png_from_file(disk)
       IN IF f.tag # "Ok"
          THEN out' = Panic("unwrap") /\ png' = None
          ELSE out' = Ok("printed") /\ png' = Ok(f.val)
    /\ UNCHANGED <<str, tres, chunk, bytes, origin, dec, text, disk>>

(***************************************************************************)
(* Specifications.                                                         *)
(***************************************************************************)
\* chunk types from text and from raw bytes
NextType ==
    \/ FromStr(TypeStrings)
    \/ TypeTryFrom(RawTypes)
    \/ Drop

SpecType == Init /\ [][NextType]_vars

\* chunks: construction, encoding, damage, decoding, text
Next ==
    \/ FromStr(ChunkTypeStrings)
    \/ TypeTryFrom(ChunkRawTypes)
    \/ New
    \/ AsBytes
    \/ FlipBit
    \/ SetLength
    \/ RawBytes
    \/ TryFrom
    \/ DataAsString
    \/ Drop

Spec == Init /\ [][Next]_vars

\* the commands on one file
NextCommand ==
    \/ \E s \in CommandTypes, m \in Messages : encode(s, m)
    \/ \E s \in CommandTypes : remove(s)
    \/ \E s \in CommandTypes : decode(s)
    \/ print

SpecCommand == Init /\ [][NextCommand]_vars

(***************************************************************************)
(* Properties.                                                             *)
(***************************************************************************)
IsAsciiLetter(c) == (65 <= c /\ c <= 90) \/ (97 <= c /\ c <= 122)

\* bit 5 (0x20) of a byte
CaseBit(b) == (b \div 32) % 2

SameChunk(c, d) ==
    /\ length(c) = length(d)
    /\ chunk_type(c) = chunk_type(d)
    /\ data(c) = data(d)
    /\ crc(c) = crc(d)

\* the buffer is the unmodified encoding of the chunk, and it was decoded
DecodedEncoding == origin.kind = "as_bytes" /\ dec.tag # "None"

\* C1 as stated: decoding the encoding of any chunk made by Chunk::new, of
\* whatever type from_str or try_from returned, succeeds and gives back the
\* same length, type, data and crc.
C1_RoundTripAnyType ==
    DecodedEncoding => dec.tag = "Ok" /\ SameChunk(dec.val, chunk.val)

\* C1 amended: decoding the encoding of a chunk made by Chunk::new succeeds
\* and gives back the same length, type, data and crc when the type is valid
\* (bit 5 of its third byte clear).
C1_RoundTripValidType ==
    (DecodedEncoding /\ is_valid(chunk.val.chunktype))
        => dec.tag = "Ok" /\ SameChunk(dec.val, chunk.val)

C1_Witness ==
    /\ DecodedEncoding
    /\ str # <<>>
    /\ is_valid(chunk.val.chunktype)
    /\ Len(chunk.val.data) = MaxDataLen
    /\ dec.tag = "Ok"

\* C2 as stated: from_str on a 4-character string succeeds exactly when the
\* four characters are ASCII letters A-Z or a-z, and then the code is the
\* four bytes of the string.
C2_FromStrLetters ==
    (origin.kind = "from_str" /\ Len(str) = 4)
        => /\ tres.tag = "Ok" <=> \A i \in 1..4 : IsAsciiLetter(str[i])
           /\ tres.tag = "Ok" => tres.val.code = str_as_bytes(str)

\* a buffer with one flipped bit, made from an encoding that decodes, was decoded
DecodedFlip ==
    /\ origin.kind = "flip"
    /\ dec.tag # "None"
    /\ Chunk_try_from(as_bytes(chunk.val)).tag = "Ok"

\* C3 as stated: after a flip of any one bit of the type or data bytes of an
\* encoding that decodes, decoding fails with the bad-CRC error.
C3_FlipIsBadCrc ==
    DecodedFlip => dec.tag = "Err" /\ dec.val = "Bad CRC"

\* C3 amended: after such a flip decoding always fails: with the invalid-type
\* error when the bit is bit 5 of the third type byte, with the bad-CRC error
\* for every other bit.
C3_FlipIsError ==
    DecodedFlip =>
        /\ dec.tag = "Err"
        /\ dec.val = IF origin.idx = 7 /\ origin.bit = 5 THEN "Bad data type!"
                     ELSE "Bad CRC"

C3_Witness ==
    /\ DecodedFlip
    /\ origin.idx > 8
    /\ dec.tag = "Err"
    /\ dec.val = "Bad CRC"

\* C4 as stated: data_as_string gives the text when the data is valid UTF-8
\* and an Err value when it is not; it never panics.
C4_DataAsStringNoPanic ==
    text.tag # "None"
        => /\ text.tag \in {"Ok", "Err"}
           /\ text.tag = "Ok" <=> utf8_valid(Subject.data)

\* C5 as stated: after a remove command that removed a chunk, the file holds
\* the encoding of the container without that chunk.
C5_RemoveWritesBack ==
    (last.cmd = "remove" /\ out.tag = "Ok") => disk = Png_as_bytes(png.val)

\* C6 as stated: the encoding of a container to which the encode command
\* appended a chunk parses, and gives back the same chunks in the same order.
C6_ContainerRoundTrip ==
    (last.cmd = "encode" /\ out.tag = "Ok")
        => LET p == Png_try_from(Png_as_bytes(png.val))
           IN p.tag = "Ok" /\ p.val.chunks = png.val.chunks

\* C7: every flag of a chunk type is the test of bit 5 of its own byte:
\* critical, public and reserved-bit-valid when the bit of byte 1, 2, 3 is
\* clear, safe to copy when the bit of byte 4 is set; is_valid is
\* is_reserved_bit_valid.
C7_FlagsAreCaseBits ==
    tres.tag = "Ok"
        => LET t == tres.val
           IN /\ is_critical(t) <=> CaseBit(t.code[1]) = 0
              /\ is_public(t) <=> CaseBit(t.code[2]) = 0
              /\ is_reserved_bit_valid(t) <=> CaseBit(t.code[3]) = 0
              /\ is_safe_to_copy(t) <=> CaseBit(t.code[4]) = 1
              /\ is_valid(t) <=> is_reserved_bit_valid(t)

C7_Witness ==
    /\ tres.tag = "Ok"
    /\ origin.kind = "from_str"
    /\ is_critical(tres.val)
    /\ ~is_public(tres.val)
    /\ ~is_valid(tres.val)
    /\ is_safe_to_copy(tres.val)

\* the four bytes of a small length, most significant first
LengthBytes(n) == <<0, 0, n \div 256, n % 256>>

\* C8: the length of a chunk from Chunk::new or from a successful decoding
\* is the number of its data bytes, which is what as_bytes writes in the
\* length field; an encoding whose length field was overwritten still
\* decodes, to the same type, data and crc.
C8_LengthIsDataLen ==
    /\ chunk.tag = "Ok" => as_bytes(chunk.val)[4] = Len(chunk.val.data)
    /\ chunk.tag = "Ok" => length(chunk.val).lo = Len(chunk.val.data)
    /\ dec.tag = "Ok"
        => /\ length(dec.val) = u32(0, Len(data(dec.val)))
           /\ Len(data(dec.val)) = Len(bytes.val) - 12
           /\ SubSeq(as_bytes(dec.val), 1, 4) = LengthBytes(Len(data(dec.val)))
    /\ (origin.kind = "length" /\ dec.tag # "None" /\ is_valid(chunk.val.chunktype))
        => dec.tag = "Ok" /\ SameChunk(dec.val, chunk.val)

C8_Witness ==
    /\ origin.kind = "length"
    /\ dec.tag = "Ok"
    /\ from_be_bytes(SubSeq(bytes.val, 1, 4)) # length(dec.val)
    /\ Len(data(dec.val)) > 0

\* C9 as stated: Chunk::try_from returns a chunk or an error for every
\* buffer, the empty one and those shorter than 12 bytes too; it never
\* panics.
C9_TryFromNoPanic ==
    dec.tag # "None" => dec.tag \in {"Ok", "Err"}

\* C10 as stated: a chunk type that from_str accepted renders as the string
\* it was made from.
C10_TextRoundTrip ==
    (origin.kind = "from_str" /\ tres.tag = "Ok") => to_string(tres.val) = str

====
